---- MODULE Spec2Model ----
(***************************************************************************)
(* RustySearch (mini-search-engine): the bounded-concurrency crawl         *)
(* orchestrator (crawler.rs), the index builder and the exact-match        *)
(* search (index.rs), the tokenizer (tokenize.rs) and run_crawl (main.rs). *)
(***************************************************************************)
EXTENDS Integers, Sequences, FiniteSets, TLC

(***************************************************************************)
(* Bounds of the model.                                                    *)
(***************************************************************************)
MaxPagesBound == 3
MaxDepthBound == 2
MaxConcBound == 2
MaxQueryLen == 5
MaxRankQueryLen == 3
MaxTf == 2
MaxDocs == 3
MaxBodyLen == 3
MaxBuildDocs == 2
MaxListLen == 2

(***************************************************************************)
(* Program constants (crawler.rs:9-11) and the limits of the spec's        *)
(* two-page scenario.                                                      *)
(***************************************************************************)
MAX_PAGES == 50
MAX_DEPTH == 3
MAX_CONCURRENT == 5
ScenarioMaxPages == 10
ScenarioMaxDepth == 3

(***************************************************************************)
(* Text.  A string is a sequence of characters; a character in none of    *)
(* the sets below (".", ",") is punctuation.                                *)
(***************************************************************************)
UpperChars == {"A", "B", "H"}
LowerChars == {"a", "b", "d", "e", "g", "h", "i", "l", "n", "o", "r", "w"}
DigitChars == {"1"}
WhiteChars == {" "}

is_alphanumeric(c) == c \in UpperChars \cup LowerChars \cup DigitChars
is_whitespace(c) == c \in WhiteChars

to_lowercase_char(c) ==
    CASE c = "A" -> "a"
      [] c = "B" -> "b"
      [] c = "H" -> "h"
      [] OTHER -> c

to_lowercase(s) == [i \in 1..Len(s) |-> to_lowercase_char(s[i])]

\* str::split_whitespace: the maximal runs of non-whitespace characters.
RECURSIVE SplitFrom(_, _, _)
SplitFrom(s, i, piece) ==
    IF i > Len(s)
    THEN IF piece = <<>> THEN <<>> ELSE <<piece>>
    ELSE IF is_whitespace(s[i])
         THEN (IF piece = <<>> THEN <<>> ELSE <<piece>>) \o SplitFrom(s, i + 1, <<>>)
         ELSE SplitFrom(s, i + 1, Append(piece, s[i]))

split_whitespace(s) == SplitFrom(s, 1, <<>>)

\* str::trim_matches(|c| !c.is_alphanumeric()): strip both ends.
RECURSIVE TrimStart(_)
TrimStart(s) ==
    IF s = <<>> \/ is_alphanumeric(Head(s)) THEN s ELSE TrimStart(Tail(s))

RECURSIVE TrimEnd(_)
TrimEnd(s) ==
    IF s = <<>> \/ is_alphanumeric(s[Len(s)]) THEN s
    ELSE TrimEnd(SubSeq(s, 1, Len(s) - 1))

trim_matches(s) == TrimEnd(TrimStart(s))

\* The mutant: pieces are kept as written (no trimming, no lower-casing).
tokenize_raw(text) == split_whitespace(text)

tokenize(text) ==
    SelectSeq([i \in 1..Len(split_whitespace(text)) |->
                  to_lowercase(trim_matches(split_whitespace(text)[i]))],
              LAMBDA w : w # <<>>)

(***************************************************************************)
(* URLs.  A URL string is written as a record: the host as written ("" for *)
(* a relative reference, "[" for a host that does not parse), whether the  *)
(* host is written in upper case, the path as written ("" for none) and    *)
(* whether a fragment follows.  A parsed Url is [host, path, frag] in the  *)
(* url crate's canonical form: host lower-cased, empty path replaced by /. *)
(***************************************************************************)
None == [none |-> TRUE]

U(h, up, p, f) == [host |-> h, up |-> up, path |-> p, frag |-> f]

\* Url::parse
UrlParse(s) ==
    IF s.host \in {"", "["} THEN None
    ELSE [host |-> s.host,
          path |-> IF s.path = "" THEN "/" ELSE s.path,
          frag |-> s.frag]

\* Url::join
UrlJoin(base, href) ==
    IF href.host = "[" THEN None
    ELSE IF href.host = ""
         THEN [host |-> base.host,
               path |-> IF href.path = "" THEN base.path ELSE href.path,
               frag |-> href.frag]
         ELSE UrlParse(href)

\* Url::to_string
UrlToString(u) == U(u.host, FALSE, u.path, u.frag)

\* Url::host_str
host_str(u) == u.host

\* The mutant: the fragment is kept.
normalize_url_keep_fragment(base, href) == UrlJoin(base, href)

normalize_url(base, href) ==
    IF UrlJoin(base, href) = None THEN None
    ELSE [UrlJoin(base, href) EXCEPT !.frag = FALSE]

\* The mutant: every link is taken, whatever its host.
same_domain_any(start, other) == TRUE

same_domain(start, other) == host_str(start) = host_str(other)

\* The bytes of a URL string, for the ordering of Vec<String>::sort.
HostBytes(s) ==
    CASE s.host = "a" -> IF s.up THEN <<65>> ELSE <<97>>
      [] s.host = "b" -> IF s.up THEN <<66>> ELSE <<98>>
      [] s.host = "[" -> <<91>>
      [] OTHER -> <<>>

PathBytes(s) ==
    CASE s.path = "/" -> <<47>>
      [] s.path = "/p" -> <<47, 112>>
      [] s.path = "/q" -> <<47, 113>>
      [] s.path = "/r" -> <<47, 114>>
      [] s.path = "/x" -> <<47, 120>>
      [] s.path = "/y" -> <<47, 121>>
      [] s.path = "/z" -> <<47, 122>>
      [] OTHER -> <<>>

Bytes(s) == HostBytes(s) \o PathBytes(s) \o (IF s.frag THEN <<35, 120>> ELSE <<>>)

RECURSIVE LexLess(_, _)
LexLess(x, y) ==
    IF y = <<>> THEN FALSE
    ELSE IF x = <<>> THEN TRUE
    ELSE IF Head(x) # Head(y) THEN Head(x) < Head(y)
    ELSE LexLess(Tail(x), Tail(y))

StrLess(s, t) == LexLess(Bytes(s), Bytes(t))

(***************************************************************************)
(* index.rs.  A HashMap is a function on its key set; <<>> is the empty    *)
(* map.                                                                    *)
(***************************************************************************)
EmptyMap == <<>>

\* *term_tf.entry(word).or_default().entry(url).or_insert(0) += 1
CountWord(term_tf, word, url) ==
    IF word \notin DOMAIN term_tf
    THEN term_tf @@ (word :> (url :> 1))
    ELSE IF url \notin DOMAIN term_tf[word]
         THEN [term_tf EXCEPT ![word] = @ @@ (url :> 1)]
         ELSE [term_tf EXCEPT ![word][url] = @ + 1]

RECURSIVE CountWords(_, _, _)
CountWords(term_tf, words, url) ==
    IF words = <<>> THEN term_tf
    ELSE CountWords(CountWord(term_tf, Head(words), url), Tail(words), url)

RECURSIVE BuildTermTf(_, _)
BuildTermTf(term_tf, results) ==
    IF results = <<>> THEN term_tf
    ELSE BuildTermTf(CountWords(term_tf, tokenize(Head(results).body_text),
                                Head(results).url),
                     Tail(results))

\* The mutant: only documents with at least one token are counted.
build_count_nonempty(results) ==
    [term_tf |-> BuildTermTf(EmptyMap, results),
     doc_count |-> Cardinality({i \in 1..Len(results) :
                                   tokenize(results[i].body_text) # <<>>})]

\* IndexWithTf::build
build(results) ==
    [term_tf |-> BuildTermTf(EmptyMap, results),
     doc_count |-> Len(results)]

\* IndexWithTf::as_inverted
as_inverted(index) == [t \in DOMAIN index.term_tf |-> DOMAIN index.term_tf[t]]

build_index_with_tf(results) == build(results)

\* Vec<String>::sort on the elements of a set, ascending byte order.
RECURSIVE SortedVec(_)
SortedVec(set) ==
    IF set = {} THEN <<>>
    ELSE LET least == CHOOSE u \in set : \A v \in set \ {u} : StrLess(u, v)
         IN  <<least>> \o SortedVec(set \ {least})

\* index.get(word).cloned().unwrap_or_default()
DocSet(index, word) == IF word \in DOMAIN index THEN index[word] ELSE {}

\* Option<HashSet<String>>
NoUrls == [some |-> FALSE, set |-> {}]
SomeUrls(set) == [some |-> TRUE, set |-> set]

\* The loop of search: urls is None before the first word.
RECURSIVE Intersect(_, _, _)
Intersect(index, words, urls) ==
    IF words = <<>> THEN urls
    ELSE Intersect(index, Tail(words),
                   IF ~urls.some THEN SomeUrls(DocSet(index, Head(words)))
                   ELSE SomeUrls(urls.set \cap DocSet(index, Head(words))))

\* The mutant: a word the index does not hold is skipped.
RECURSIVE IntersectSkipAbsent(_, _, _)
IntersectSkipAbsent(index, words, urls) ==
    IF words = <<>> THEN urls
    ELSE IntersectSkipAbsent(index, Tail(words),
             IF Head(words) \notin DOMAIN index THEN urls
             ELSE IF ~urls.some THEN SomeUrls(DocSet(index, Head(words)))
             ELSE SomeUrls(urls.set \cap DocSet(index, Head(words))))

search_skip_absent(index, query) ==
    IF tokenize(query) = <<>> THEN <<>>
    ELSE SortedVec(IntersectSkipAbsent(index, tokenize(query), NoUrls).set)

\* The mutant: the document sets are united.
RECURSIVE Unite(_, _)
Unite(index, words) ==
    IF words = <<>> THEN {}
    ELSE DocSet(index, Head(words)) \cup Unite(index, Tail(words))

search_any(index, query) ==
    IF tokenize(query) = <<>> THEN <<>>
    ELSE SortedVec(Unite(index, tokenize(query)))

search(index, query) ==
    IF tokenize(query) = <<>> THEN <<>>
    ELSE SortedVec(Intersect(index, tokenize(query), NoUrls).set)

\* f64::ln of a whole number, in thousandths.
LnMilli(k) ==
    CASE k = 1 -> 0
      [] k = 2 -> 693
      [] k = 3 -> 1099
      [] k = 4 -> 1386
      [] k = 5 -> 1609
      [] k = 6 -> 1792
      [] k = 7 -> 1946
      [] OTHER -> 2079

\* lines 61-63: ((n + 1.0) / (df + 1.0)).ln() + 1.0, in thousandths.
Idf(n, df) == LnMilli(n + 1) - LnMilli(df + 1) + 1000

\* lines 64-66: every document of the word gets tf * idf added.
AddScores(url_scores, url_counts, idf) ==
    [u \in DOMAIN url_scores \cup DOMAIN url_counts |->
        (IF u \in DOMAIN url_scores THEN url_scores[u] ELSE 0)
        + (IF u \in DOMAIN url_counts THEN url_counts[u] * idf ELSE 0)]

\* lines 56-67: the loop over the query's words, as they come.
RECURSIVE ScoreWords(_, _, _)
ScoreWords(index, words, url_scores) ==
    IF words = <<>> THEN url_scores
    ELSE ScoreWords(index, Tail(words),
             IF Head(words) \notin DOMAIN index.term_tf THEN url_scores
             ELSE AddScores(url_scores, index.term_tf[Head(words)],
                            Idf(index.doc_count,
                                Cardinality(DOMAIN index.term_tf[Head(words)]))))

\* lines 68-69: the entries of url_scores in an order sort_by can leave them
\* in: by score, descending; entries of equal score in any order.
RankedOrders(url_scores) ==
    {v \in [1..Cardinality(DOMAIN url_scores) ->
                 {<<u, url_scores[u]>> : u \in DOMAIN url_scores}] :
        /\ \A i, j \in DOMAIN v : i # j => v[i][1] # v[j][1]
        /\ \A i, j \in DOMAIN v : i < j => v[i][2] >= v[j][2]}

\* IndexWithTf::search_ranked: the lists it can return.
search_ranked(index, query) ==
    IF tokenize(query) = <<>> \/ index.doc_count = 0 THEN {<<>>}
    ELSE RankedOrders(ScoreWords(index, tokenize(query), EmptyMap))

(***************************************************************************)
(* The web the crawl runs against: a site maps a resource (host, path) to  *)
(* the response its server gives.  A resource that is not in the site is   *)
(* not served (the connection fails).                                      *)
(***************************************************************************)
R(h, p) == [host |-> h, path |-> p]
Page(st, ti, bo, hs) == [status |-> st, title |-> ti, body |-> bo, hrefs |-> hs]

Hello == <<"h", "e", "l", "l", "o">>
World == <<"w", "o", "r", "l", "d">>
Again == <<"a", "g", "a", "i", "n">>
Sp == <<" ">>

UrlA == U("a", FALSE, "/", FALSE)
UrlB == U("a", FALSE, "/p", FALSE)
UrlQ == U("a", FALSE, "/q", FALSE)
UrlOther == U("b", FALSE, "/", FALSE)

\* Seed page A ("hello world", a link to B) and page B ("hello again").
ScenarioSite ==
    (R("a", "/") :> Page(200, <<"A">>, Hello \o Sp \o World, <<UrlB>>)) @@
    (R("a", "/p") :> Page(200, <<"B">>, Hello \o Sp \o Again, <<>>))

\* Relative, fragment, off-site, unparseable, upper-case and repeated hrefs.
MixedSite ==
    (R("a", "/") :> Page(200, <<>>, <<"H", "e", ",", " ", "h", "e", " ", "B", "1", ".">>,
                         <<U("", FALSE, "/p", FALSE), UrlOther, U("", FALSE, "", TRUE),
                           U("[", FALSE, "/", FALSE), U("a", TRUE, "/q", FALSE)>>)) @@
    (R("a", "/p") :> Page(200, <<>>, <<" ", "a", " ", "b", " ", "a", " ">>,
                          <<U("a", FALSE, "/", TRUE), U("", FALSE, "/q", FALSE),
                            U("", FALSE, "/q", FALSE)>>)) @@
    (R("a", "/q") :> Page(200, <<>>, <<>>,
                          <<U("", FALSE, "/p", FALSE), U("a", FALSE, "", FALSE)>>)) @@
    (R("b", "/") :> Page(200, <<>>, <<"b">>, <<UrlB, U("", FALSE, "/", FALSE)>>))

\* A cycle / -> /p -> /q -> /.
ChainSite ==
    (R("a", "/") :> Page(200, <<>>, <<"a">>, <<UrlB>>)) @@
    (R("a", "/p") :> Page(200, <<>>, <<"a", " ", "a">>, <<UrlQ>>)) @@
    (R("a", "/q") :> Page(200, <<>>, <<"b">>, <<UrlA>>))

\* The seed answers 404 with an error page; /q is not served.
ErrorSite ==
    (R("a", "/") :> Page(404, <<>>, <<"n", "o">>, <<UrlB>>)) @@
    (R("a", "/p") :> Page(200, <<>>, <<"a">>, <<UrlQ>>))

\* The seed links to three pages at once.
FanSite ==
    (R("a", "/") :> Page(200, <<>>, <<"a", " ", "b">>, <<UrlB, UrlQ, UrlOther>>)) @@
    (R("a", "/p") :> Page(200, <<>>, <<"b">>, <<UrlQ>>)) @@
    (R("a", "/q") :> Page(500, <<>>, <<"a">>, <<UrlB>>)) @@
    (R("b", "/") :> Page(200, <<>>, <<"b">>, <<>>))

\* /r is two links from the seed through /p and three through /x and /y;
\* /z is one link further.
DetourSite ==
    (R("a", "/") :> Page(200, <<>>, <<"a">>, <<UrlB, U("a", FALSE, "/x", FALSE)>>)) @@
    (R("a", "/p") :> Page(200, <<>>, <<"b">>, <<U("a", FALSE, "/r", FALSE)>>)) @@
    (R("a", "/x") :> Page(200, <<>>, <<>>, <<U("a", FALSE, "/y", FALSE)>>)) @@
    (R("a", "/y") :> Page(200, <<>>, <<>>, <<U("a", FALSE, "/r", FALSE)>>)) @@
    (R("a", "/r") :> Page(200, <<>>, <<"a">>, <<U("a", FALSE, "/z", FALSE)>>)) @@
    (R("a", "/z") :> Page(200, <<>>, <<"b">>, <<>>))

Sites == {ScenarioSite, MixedSite, ChainSite, ErrorSite, FanSite, DetourSite}

\* Seed strings: normalized, without a path, with a fragment, with an
\* upper-case host, below the root, on the other host, and two that
\* Url::parse rejects.
Seeds == {UrlA, U("a", FALSE, "", FALSE), U("a", FALSE, "/", TRUE),
          U("a", TRUE, "/", FALSE), UrlB, UrlOther,
          U("", FALSE, "/p", FALSE), U("[", FALSE, "/", FALSE)}

Limits ==
    [max_pages : 0..MaxPagesBound, max_depth : 0..MaxDepthBound,
     max_concurrent : 1..MaxConcBound]
    \cup {[max_pages |-> ScenarioMaxPages, max_depth |-> ScenarioMaxDepth,
           max_concurrent |-> MAX_CONCURRENT],
          [max_pages |-> MAX_PAGES, max_depth |-> MAX_DEPTH,
           max_concurrent |-> MAX_CONCURRENT]}

(***************************************************************************)
(* crawler.rs: fetch_page_async.                                           *)
(***************************************************************************)
Err == [ok |-> FALSE]
Ok(r) == [ok |-> TRUE, val |-> r]

RECURSIVE TrimWsStart(_)
TrimWsStart(s) ==
    IF s = <<>> \/ ~is_whitespace(Head(s)) THEN s ELSE TrimWsStart(Tail(s))

RECURSIVE TrimWsEnd(_)
TrimWsEnd(s) ==
    IF s = <<>> \/ ~is_whitespace(s[Len(s)]) THEN s
    ELSE TrimWsEnd(SubSeq(s, 1, Len(s) - 1))

\* str::trim
trim(s) == TrimWsEnd(TrimWsStart(s))

\* The loop over a[href]: the same-site, normalizable hrefs, in order.
RECURSIVE ExtractLinks(_, _)
ExtractLinks(base_url, hrefs) ==
    IF hrefs = <<>> THEN <<>>
    ELSE (IF normalize_url(base_url, Head(hrefs)) # None
             /\ same_domain(base_url, normalize_url(base_url, Head(hrefs)))
          THEN <<UrlToString(normalize_url(base_url, Head(hrefs)))>>
          ELSE <<>>)
         \o ExtractLinks(base_url, Tail(hrefs))

\* client.get(url).send().await?: a response of any status is Ok.
SendOk(site, url, net) ==
    /\ net = "up"
    /\ UrlParse(url) # None
    /\ R(UrlParse(url).host, UrlParse(url).path) \in DOMAIN site

Response(site, url) == site[R(UrlParse(url).host, UrlParse(url).path)]

fetch_page_async(site, url, net) ==
    IF ~SendOk(site, url, net) THEN Err
    ELSE Ok([url |-> url,
             title |-> trim(Response(site, url).title),
             body_text |-> trim(Response(site, url).body),
             links |-> ExtractLinks(UrlParse(url), Response(site, url).hrefs)])

(***************************************************************************)
(* The index file (index.rs, main.rs): what serde_json makes of its        *)
(* content.  A counted file is an object with the fields term_tf and       *)
(* doc_count; a legacy file is an object of term -> array of URLs; any     *)
(* other content, and a file that is not there, parses as neither.         *)
(***************************************************************************)
NoFile == [schema |-> "none"]
NotJson == [schema |-> "garbage"]
CountedJson(term_tf, doc_count) ==
    [schema |-> "counted", term_tf |-> term_tf, doc_count |-> doc_count]
LegacyJson(lists) == [schema |-> "legacy", lists |-> lists]

\* serde_json::to_string_pretty(index) of an IndexWithTf, written to the file.
save_index_with_tf(index) == CountedJson(index.term_tf, index.doc_count)

\* serde_json::from_str::<IndexWithTf>: both fields are required.
FromStrIndexWithTf(json) ==
    IF json.schema = "counted"
    THEN Ok([term_tf |-> json.term_tf, doc_count |-> json.doc_count])
    ELSE Err

\* serde_json::from_str::<InvertedIndex>: every array becomes a HashSet.
FromStrInvertedIndex(json) ==
    IF json.schema = "legacy"
    THEN Ok([t \in DOMAIN json.lists |->
                {json.lists[t][i] : i \in 1..Len(json.lists[t])}])
    ELSE Err

load_index_with_tf(json) == FromStrIndexWithTf(json)

load_index(json) ==
    IF FromStrIndexWithTf(json).ok
    THEN Ok(as_inverted(FromStrIndexWithTf(json).val))
    ELSE FromStrInvertedIndex(json)

\* The mutant: the URLs are counted once per term list.
UrlOccurrences(simple) ==
    Cardinality({tu \in (DOMAIN simple) \X (UNION {simple[w] : w \in DOMAIN simple}) :
                    tu[2] \in simple[tu[1]]})

\* main.rs line 88: the number of distinct URLs over all the term lists.
DistinctUrls(simple) == Cardinality(UNION {simple[t] : t \in DOMAIN simple})

\* main.rs lines 87-93: the IndexWithTf made of a legacy index.
FromSimple(simple) ==
    [term_tf |-> [t \in DOMAIN simple |-> [u \in simple[t] |-> 1]],
     doc_count |-> DistinctUrls(simple)]

\* The mutant: the file is read through load_index first.
LoadForServeSimpleFirst(json) ==
    IF load_index(json).ok THEN Ok(FromSimple(load_index(json).val))
    ELSE load_index_with_tf(json)

\* main.rs lines 86-94: load_index_with_tf(path).or_else(...)
LoadForServe(json) ==
    IF load_index_with_tf(json).ok THEN load_index_with_tf(json)
    ELSE IF load_index(json).ok THEN Ok(FromSimple(load_index(json).val))
    ELSE Err

(***************************************************************************)
(* The state of one run of run_crawl (main.rs) around crawl_async.         *)
(***************************************************************************)
VARIABLES
    site,            \* the web the run meets
    start_url,       \* the arguments of crawl_async
    max_pages,
    max_depth,
    max_concurrent,
    pc,              \* where the orchestrator is
    permits,         \* permits the semaphore has left
    visited,         \* HashSet<String>
    queue,           \* VecDeque<(String, u32)>
    cur,             \* (url, depth) of the loop body while it awaits a permit
    results,         \* Vec<CrawlResult>
    join_set,        \* the spawned tasks that are not joined yet
    dispatched,      \* history: (url, depth) of every task spawned, in order
    fetch_failed,    \* history: the URLs whose task was joined with an Err
    idx,             \* the index run_crawl builds
    file,            \* the index file run_crawl writes
    q_index,         \* the arguments and the result of one call of search
                     \* or of search_ranked
    q_query,
    q_hits,
    q_pc

vars == <<site, start_url, max_pages, max_depth, max_concurrent, pc, permits,
          visited, queue, cur, results, join_set, dispatched, fetch_failed,
          idx, file, q_index, q_query, q_hits, q_pc>>

config == <<site, start_url, max_pages, max_depth, max_concurrent>>
query_vars == <<q_index, q_query, q_hits, q_pc>>
crawl_vars == <<pc, permits, visited, queue, cur, results, join_set, dispatched,
                fetch_failed, idx, file>>

NoEntry == [url |-> UrlA, depth |-> 0]
NoIndex == [term_tf |-> EmptyMap, doc_count |-> 0]

QueryIdle ==
    /\ q_index = EmptyMap
    /\ q_query = <<>>
    /\ q_hits = <<>>
    /\ q_pc = "idle"

CrawlIdle ==
    /\ pc = "init"
    /\ permits = 0
    /\ visited = {}
    /\ queue = <<>>
    /\ cur = NoEntry
    /\ results = <<>>
    /\ join_set = {}
    /\ dispatched = <<>>
    /\ fetch_failed = {}
    /\ idx = NoIndex
    /\ file = NoFile

Init ==
    /\ site \in Sites
    /\ start_url \in Seeds
    /\ \E l \in Limits :
          /\ max_pages = l.max_pages
          /\ max_depth = l.max_depth
          /\ max_concurrent = l.max_concurrent
    /\ CrawlIdle
    /\ QueryIdle

\* The mutant: the loop stops dispatching one page short of the cap.
CanSpawnOneShort == Len(results) + Cardinality(join_set) + 1 < max_pages

\* The mutant: tasks in flight do not count against the page cap.
CanSpawnIgnoringInFlight == Len(results) < max_pages

\* line 102: results.len() + join_set.len() < max_pages
CanSpawn == Len(results) + Cardinality(join_set) < max_pages

\* The mutant: the visited set is not consulted.
SkipEntryDepthOnly(e) == e.depth > max_depth

\* The mutant: the depth is not consulted.
SkipEntryVisitedOnly(e) == e.url \in visited

\* line 107: depth > max_depth || visited.contains(&url)
SkipEntry(e) == e.depth > max_depth \/ e.url \in visited

\* The mutant: a link keeps the depth of the page it was found on.
ChildDepthSame(depth) == depth

\* line 137: depth + 1
ChildDepth(depth) == depth + 1

\* The mutant: a permit is not given back when the task completes.
PermitsAfterTaskKept(p) == p

\* line 116: _permit is dropped when the task's future completes.
PermitsAfterTask(p) == p + 1

\* The mutant: the loop also ends when the frontier is empty.
JoinSetEmptyOrQueueEmpty == join_set = {} \/ queue = <<>>

\* line 122: join_set.is_empty()
JoinSetEmpty == join_set = {}

\* lines 135-139: the links not visited yet, each at depth + 1.
RECURSIVE NewEntries(_, _, _)
NewEntries(links, seen, depth) ==
    IF links = <<>> THEN <<>>
    ELSE (IF Head(links) \notin seen
          THEN <<[url |-> Head(links), depth |-> ChildDepth(depth)]>>
          ELSE <<>>)
         \o NewEntries(Tail(links), seen, depth)

\* lines 85-98: the seed is parsed and queued.
CrawlStart ==
    /\ pc = "init"
    /\ IF UrlParse(start_url) = None
       THEN /\ pc' = "err"
            /\ UNCHANGED <<permits, queue>>
       ELSE /\ pc' = "loop"
            /\ permits' = max_concurrent
            /\ queue' = <<[url |-> start_url, depth |-> 0]>>
    /\ UNCHANGED <<config, fetch_failed, visited, cur, results, join_set, dispatched, idx, file,
                   query_vars>>

\* lines 102-109: an entry is popped and dropped.
PopDrop ==
    /\ pc = "loop"
    /\ CanSpawn
    /\ queue # <<>>
    /\ SkipEntry(Head(queue))
    /\ queue' = Tail(queue)
    /\ UNCHANGED <<config, fetch_failed, pc, permits, visited, cur, results, join_set, dispatched,
                   idx, file, query_vars>>

\* lines 102-112: an entry is popped, marked visited, and a permit awaited.
PopVisit ==
    /\ pc = "loop"
    /\ CanSpawn
    /\ queue # <<>>
    /\ ~SkipEntry(Head(queue))
    /\ queue' = Tail(queue)
    /\ visited' = visited \cup {Head(queue).url}
    /\ cur' = Head(queue)
    /\ pc' = "acquire"
    /\ UNCHANGED <<config, fetch_failed, permits, results, join_set, dispatched, idx, file,
                   query_vars>>

\* The mutant: the task is spawned without a permit.
SpawnWithoutPermit ==
    /\ pc = "acquire"
    /\ join_set' = join_set \cup
          {[id |-> Len(dispatched) + 1, url |-> cur.url, depth |-> cur.depth,
            done |-> FALSE, res |-> Err]}
    /\ dispatched' = Append(dispatched, cur)
    /\ cur' = NoEntry
    /\ pc' = "loop"
    /\ UNCHANGED <<config, fetch_failed, permits, visited, queue, results, idx, file,
                   query_vars>>

\* lines 112-119: the permit is acquired and the task spawned.
Spawn ==
    /\ pc = "acquire"
    /\ permits > 0
    /\ permits' = permits - 1
    /\ join_set' = join_set \cup
          {[id |-> Len(dispatched) + 1, url |-> cur.url, depth |-> cur.depth,
            done |-> FALSE, res |-> Err]}
    /\ dispatched' = Append(dispatched, cur)
    /\ cur' = NoEntry
    /\ pc' = "loop"
    /\ UNCHANGED <<config, fetch_failed, visited, queue, results, idx, file, query_vars>>

\* lines 115-119: a task runs fetch_page_async to its end, on its own.
TaskFinish(t, net) ==
    /\ t \in join_set
    /\ ~t.done
    /\ join_set' = (join_set \ {t}) \cup
          {[t EXCEPT !.done = TRUE, !.res = fetch_page_async(site, t.url, net)]}
    /\ permits' = PermitsAfterTask(permits)
    /\ UNCHANGED <<config, fetch_failed, pc, visited, queue, cur, results, dispatched, idx, file,
                   query_vars>>

\* lines 102-106, 122-124: nothing to spawn and nothing in flight.
LoopReturn ==
    /\ pc = "loop"
    /\ ~CanSpawn \/ queue = <<>>
    /\ JoinSetEmpty
    /\ pc' = "ok"
    /\ UNCHANGED <<config, fetch_failed, permits, visited, queue, cur, results, join_set,
                   dispatched, idx, file, query_vars>>

\* lines 102-106, 122-126: nothing to spawn, join_next is awaited.
LoopAwaitJoin ==
    /\ pc = "loop"
    /\ ~CanSpawn \/ queue = <<>>
    /\ ~JoinSetEmpty
    /\ pc' = "join"
    /\ UNCHANGED <<config, fetch_failed, permits, visited, queue, cur, results, join_set,
                   dispatched, idx, file, query_vars>>

\* The mutant: the task's error is returned to the caller.
JoinErrAbort(t) ==
    /\ pc = "join"
    /\ t \in join_set
    /\ t.done
    /\ ~t.res.ok
    /\ join_set' = join_set \ {t}
    /\ fetch_failed' = fetch_failed \cup {t.url}
    /\ pc' = "err"
    /\ UNCHANGED <<config, permits, visited, queue, cur, results, dispatched, idx,
                   file, query_vars>>

\* lines 126-133: a task that failed is joined.
JoinErr(t) ==
    /\ pc = "join"
    /\ t \in join_set
    /\ t.done
    /\ ~t.res.ok
    /\ join_set' = join_set \ {t}
    /\ fetch_failed' = fetch_failed \cup {t.url}
    /\ pc' = "loop"
    /\ UNCHANGED <<config, permits, visited, queue, cur, results, dispatched, idx,
                   file, query_vars>>

\* The mutant: the result is put in front of the list.
JoinOkPrepend(t) ==
    /\ pc = "join"
    /\ t \in join_set
    /\ t.done
    /\ t.res.ok
    /\ join_set' = join_set \ {t}
    /\ results' = <<t.res.val>> \o results
    /\ queue' = queue \o NewEntries(t.res.val.links, visited, t.depth)
    /\ pc' = "loop"
    /\ UNCHANGED <<config, fetch_failed, permits, visited, cur, dispatched, idx, file, query_vars>>

\* lines 126-139: a task that succeeded is joined.
JoinOk(t) ==
    /\ pc = "join"
    /\ t \in join_set
    /\ t.done
    /\ t.res.ok
    /\ join_set' = join_set \ {t}
    /\ results' = Append(results, t.res.val)
    /\ queue' = queue \o NewEntries(t.res.val.links, visited, t.depth)
    /\ pc' = "loop"
    /\ UNCHANGED <<config, fetch_failed, permits, visited, cur, dispatched, idx, file, query_vars>>

\* main.rs line 77: run_crawl builds the index from what crawl returned.
BuildIndex ==
    /\ pc = "ok"
    /\ idx' = build_index_with_tf(results)
    /\ pc' = "built"
    /\ UNCHANGED <<config, fetch_failed, permits, visited, queue, cur, results, join_set,
                   dispatched, file, query_vars>>

\* main.rs lines 78-81: run_crawl writes the index file.
SaveIndex ==
    /\ pc = "built"
    /\ file' = save_index_with_tf(idx)
    /\ pc' = "saved"
    /\ UNCHANGED <<config, fetch_failed, permits, visited, queue, cur, results, join_set,
                   dispatched, idx, query_vars>>

Next ==
    \/ CrawlStart
    \/ PopDrop
    \/ PopVisit
    \/ Spawn
    \/ \E t \in join_set, net \in {"up", "down"} : TaskFinish(t, net)
    \/ LoopReturn
    \/ LoopAwaitJoin
    \/ \E t \in join_set : JoinErr(t)
    \/ \E t \in join_set : JoinOk(t)
    \/ BuildIndex
    \/ SaveIndex

Spec == Init /\ [][Next]_vars

(***************************************************************************)
(* One call of search (index.rs) on an index and a query string.           *)
(***************************************************************************)
QueryChars == {"a", "B", ".", " "}
QueryTerms == {<<"a">>, <<"b">>}
QueryUrls == {UrlA, UrlB, U("a", TRUE, "/", FALSE)}

RECURSIVE StringsUpTo(_)
StringsUpTo(n) ==
    IF n = 0 THEN {<<>>}
    ELSE StringsUpTo(n - 1) \cup
         {Append(w, c) : w \in {v \in StringsUpTo(n - 1) : Len(v) = n - 1},
                         c \in QueryChars}

Queries == StringsUpTo(MaxQueryLen)

\* InvertedIndex values: each term absent, or mapped to a set of URLs.
QueryIndexes == UNION {[D -> SUBSET QueryUrls] : D \in SUBSET QueryTerms}

SearchInit ==
    /\ site = ScenarioSite
    /\ start_url = UrlA
    /\ max_pages = MAX_PAGES
    /\ max_depth = MAX_DEPTH
    /\ max_concurrent = MAX_CONCURRENT
    /\ CrawlIdle
    /\ q_index \in QueryIndexes
    /\ q_query \in Queries
    /\ q_hits = <<>>
    /\ q_pc = "call"

SearchCall ==
    /\ q_pc = "call"
    /\ q_hits' = search(q_index, q_query)
    /\ q_pc' = "done"
    /\ UNCHANGED <<config, crawl_vars, q_index, q_query>>

SearchNext == SearchCall

SpecSearch == SearchInit /\ [][SearchNext]_vars

(***************************************************************************)
(* One call of search_ranked (index.rs) on an index and a query string.    *)
(***************************************************************************)
RankUrls == {UrlA, UrlB}

\* HashMap<String, u32> values with at least one document.
UrlCounts == UNION {[D -> 1..MaxTf] : D \in SUBSET RankUrls \ {{}}}

Docs(term_tf) == UNION {DOMAIN term_tf[t] : t \in DOMAIN term_tf}

\* The indexes build can give: doc_count is at least the number of
\* documents that hold a term.
RankIndexes ==
    {[term_tf |-> tf, doc_count |-> n] :
        tf \in UNION {[D -> UrlCounts] : D \in SUBSET QueryTerms},
        n \in 0..MaxDocs}

RankInit ==
    /\ site = ScenarioSite
    /\ start_url = UrlA
    /\ max_pages = MAX_PAGES
    /\ max_depth = MAX_DEPTH
    /\ max_concurrent = MAX_CONCURRENT
    /\ CrawlIdle
    /\ q_index \in {i \in RankIndexes : i.doc_count >= Cardinality(Docs(i.term_tf))}
    /\ q_query \in StringsUpTo(MaxRankQueryLen)
    /\ q_hits = <<>>
    /\ q_pc = "call"

RankCall ==
    /\ q_pc = "call"
    /\ q_hits' \in search_ranked(q_index, q_query)
    /\ q_pc' = "ranked"
    /\ UNCHANGED <<config, crawl_vars, q_index, q_query>>

RankNext == RankCall

SpecRank == RankInit /\ [][RankNext]_vars

(***************************************************************************)
(* One call of build_index_with_tf (index.rs) on a list of crawl results.  *)
(***************************************************************************)
BuildUrls == <<UrlA, UrlB>>

\* CrawlResult values whose body is any short string.
BuildDoc(url, body) == [url |-> url, title |-> <<>>, body_text |-> body, links |-> <<>>]

BuildDocs ==
    {BuildDoc(BuildUrls[i], body) : i \in 1..Len(BuildUrls),
                                    body \in StringsUpTo(MaxBodyLen)}

BuildInit ==
    /\ site = ScenarioSite
    /\ start_url = UrlA
    /\ max_pages = MAX_PAGES
    /\ max_depth = MAX_DEPTH
    /\ max_concurrent = MAX_CONCURRENT
    /\ pc = "ok"
    /\ permits = max_concurrent
    /\ visited = {}
    /\ queue = <<>>
    /\ cur = NoEntry
    /\ \E n \in 0..MaxBuildDocs : results \in [1..n -> BuildDocs]
    /\ \A i, j \in 1..Len(results) : i # j => results[i].url # results[j].url
    /\ join_set = {}
    /\ dispatched = <<>>
    /\ fetch_failed = {}
    /\ idx = NoIndex
    /\ file = NoFile
    /\ QueryIdle

BuildNext == BuildIndex \/ SaveIndex

SpecBuild == BuildInit /\ [][BuildNext]_vars

(***************************************************************************)
(* run_serve (main.rs) loads the index file.                               *)
(***************************************************************************)
\* JSON arrays of URLs: a URL can be there twice.
RECURSIVE UrlListsUpTo(_)
UrlListsUpTo(n) ==
    IF n = 0 THEN {<<>>}
    ELSE UrlListsUpTo(n - 1) \cup
         {Append(l, u) : l \in {v \in UrlListsUpTo(n - 1) : Len(v) = n - 1},
                         u \in RankUrls}

IndexFiles ==
    {NoFile, NotJson}
    \cup {CountedJson(i.term_tf, i.doc_count) : i \in RankIndexes}
    \cup {LegacyJson(lists) :
             lists \in UNION {[D -> UrlListsUpTo(MaxListLen)] : D \in SUBSET QueryTerms}}

LoadInit ==
    /\ site = ScenarioSite
    /\ start_url = UrlA
    /\ max_pages = MAX_PAGES
    /\ max_depth = MAX_DEPTH
    /\ max_concurrent = MAX_CONCURRENT
    /\ pc = "init"
    /\ permits = 0
    /\ visited = {}
    /\ queue = <<>>
    /\ cur = NoEntry
    /\ results = <<>>
    /\ join_set = {}
    /\ dispatched = <<>>
    /\ fetch_failed = {}
    /\ idx = NoIndex
    /\ file \in IndexFiles
    /\ q_index = EmptyMap
    /\ q_query = <<>>
    /\ q_hits = <<>>
    /\ q_pc = "load"

\* main.rs lines 86-95: the index is loaded and becomes the server's state.
LoadOk ==
    /\ q_pc = "load"
    /\ LoadForServe(file).ok
    /\ q_index' = LoadForServe(file).val
    /\ q_pc' = "loaded"
    /\ UNCHANGED <<config, crawl_vars, q_query, q_hits>>

\* main.rs line 94: the ? returns the error of the load.
LoadFail ==
    /\ q_pc = "load"
    /\ ~LoadForServe(file).ok
    /\ q_pc' = "load_err"
    /\ UNCHANGED <<config, crawl_vars, q_index, q_query, q_hits>>

LoadNext == LoadOk \/ LoadFail

SpecLoad == LoadInit /\ [][LoadNext]_vars

\* The steps of crawl_async: one future, driven by block_on (line 154), that
\* runs whenever it is not awaiting.
Orchestrator ==
    \/ CrawlStart
    \/ PopDrop
    \/ PopVisit
    \/ Spawn
    \/ LoopReturn
    \/ LoopAwaitJoin
    \/ \E t \in join_set : JoinErr(t)
    \/ \E t \in join_set : JoinOk(t)

\* A spawned task runs on the runtime's workers: its fetch ends, one way or
\* the other.
TasksRun == \E t \in join_set, net \in {"up", "down"} : TaskFinish(t, net)

FairSpec == Spec /\ WF_vars(Orchestrator) /\ WF_vars(TasksRun)

(***************************************************************************)
(* Helpers of the properties.                                              *)
(***************************************************************************)
Returned == {"ok", "err", "built", "saved"}
ReturnedOk == {"ok", "built", "saved"}
Urls(seq) == {seq[i].url : i \in 1..Len(seq)}
Distinct(seq) == \A i, j \in 1..Len(seq) : i # j => seq[i].url # seq[j].url
HostOf(s) == host_str(UrlParse(s))
Joined(url) == url \in Urls(dispatched) /\ \A t \in join_set : t.url # url

(***************************************************************************)
(* C1: the result collection never holds more than max_pages pages,        *)
(* whatever the interleaving of completions and whichever fetches fail;    *)
(* max_pages = 0 included.                                                 *)
(***************************************************************************)
C1_PageCap == Len(results) <= max_pages

\* The crawl returned with the cap reached while entries were still queued.
C1_Witness ==
    /\ max_pages > 0
    /\ Len(results) = max_pages
    /\ queue # <<>>
    /\ pc \in ReturnedOk

\* max_pages = 0: the crawl returns without a page.
C1_WitnessZero == max_pages = 0 /\ pc = "ok"

(***************************************************************************)
(* C2: a URL string is dispatched at most once per run, also when its      *)
(* fetch failed; the visited set only grows; no URL is twice in results    *)
(* and every result's URL is in the visited set.                           *)
(***************************************************************************)
C2_State ==
    /\ Distinct(dispatched)
    /\ Distinct(results)
    /\ Urls(results) \subseteq visited
    /\ Urls(dispatched) \subseteq visited
    /\ fetch_failed \cap Urls(results) = {}

C2_VisitedOnce == []C2_State /\ [][visited \subseteq visited']_vars

\* A URL whose fetch failed is at the head of the frontier again.
C2_Witness ==
    /\ pc = "loop"
    /\ CanSpawn
    /\ queue # <<>>
    /\ Head(queue).url \in fetch_failed

(***************************************************************************)
(* C3: every page in results was dispatched from an entry of depth at most *)
(* max_depth; the seed has depth 0 and a link found on a page dispatched   *)
(* at depth d is queued at depth d + 1; an entry deeper than max_depth is  *)
(* dropped without a fetch and without being marked visited.               *)
(***************************************************************************)
\* e is the seed's entry, or a link of a result, one deeper than its page.
WellQueued(e) ==
    \/ e = [url |-> start_url, depth |-> 0]
    \/ \E i \in 1..Len(results) :
          /\ \E k \in 1..Len(results[i].links) : results[i].links[k] = e.url
          /\ \E j \in 1..Len(dispatched) :
                /\ dispatched[j].url = results[i].url
                /\ e.depth = dispatched[j].depth + 1

C3_State ==
    /\ \A j \in 1..Len(dispatched) :
          dispatched[j].depth <= max_depth /\ WellQueued(dispatched[j])
    /\ \A i \in 1..Len(results) :
          \E j \in 1..Len(dispatched) :
             dispatched[j].url = results[i].url /\ dispatched[j].depth <= max_depth
    /\ \A k \in 1..Len(queue) : WellQueued(queue[k])
    /\ pc = "acquire" => cur.depth <= max_depth /\ WellQueued(cur)

C3_DeepDropped ==
    (pc = "loop" /\ CanSpawn /\ queue # <<>> /\ Head(queue).depth > max_depth
       /\ queue' = Tail(queue))
    => (visited' = visited /\ dispatched' = dispatched /\ join_set' = join_set
          /\ pc' = "loop")

C3_DepthCap == []C3_State /\ [][C3_DeepDropped]_vars

\* An entry deeper than max_depth, not visited, is about to be popped.
C3_Witness ==
    /\ pc = "loop"
    /\ CanSpawn
    /\ queue # <<>>
    /\ Head(queue).depth > max_depth
    /\ Head(queue).url \notin visited
    /\ Len(results) >= 2

(***************************************************************************)
(* C4: every link of every result, and so every URL dispatched after the   *)
(* seed, has the seed URL's host, though the extractor compares a link     *)
(* with the host of the page it was found on.                              *)
(***************************************************************************)
C4_SameHost ==
    pc \notin {"init", "err"} =>
       /\ \A i \in 1..Len(results) : \A k \in 1..Len(results[i].links) :
             HostOf(results[i].links[k]) = HostOf(start_url)
       /\ \A j \in 1..Len(dispatched) : HostOf(dispatched[j].url) = HostOf(start_url)
       /\ \A k \in 1..Len(queue) : HostOf(queue[k].url) = HostOf(start_url)

\* A page other than the seed, holding an off-site href, is in results.
C4_Witness ==
    \E i \in 2..Len(results) :
       \E k \in 1..Len(Response(site, results[i].url).hrefs) :
          LET abs == normalize_url(UrlParse(results[i].url),
                                   Response(site, results[i].url).hrefs[k])
          IN  abs # None /\ host_str(abs) # HostOf(start_url)

(***************************************************************************)
(* C5: the crawl terminates.  With every spawned fetch ending (in success  *)
(* or failure) and the orchestrator running whenever it can, crawl_async   *)
(* returns; it is never stuck acquiring a permit, because a task gives its *)
(* permit back when it completes, not when it is joined.                   *)
(***************************************************************************)
C5_Terminates == <>(pc \in Returned)

\* The orchestrator waits for a permit: all are held, the page cap is above
\* the concurrency cap, and no task has been joined yet since the last spawn.
C5_Witness ==
    /\ pc = "acquire"
    /\ permits = 0
    /\ max_pages > max_concurrent
    /\ Cardinality(join_set) = max_concurrent
    /\ \A t \in join_set : ~t.done

(***************************************************************************)
(* C6: the index is built only after the whole crawl has ended: crawl      *)
(* returns successfully only with no task spawned and not yet joined,      *)
(* run_crawl builds the index only after crawl has returned, and the       *)
(* result list the builder got is never extended afterwards.               *)
(***************************************************************************)
C6_State ==
    /\ pc \in ReturnedOk => join_set = {} /\ \A j \in 1..Len(dispatched) :
                                                Joined(dispatched[j].url)
    /\ pc \in {"built", "saved"} => idx = build(results)
    /\ pc \notin {"built", "saved"} => idx = NoIndex

C6_Step ==
    /\ pc \in ReturnedOk => results' = results /\ pc' \in ReturnedOk
    /\ idx' # idx => pc = "ok"

C6_IndexAfterCrawl == []C6_State /\ [][C6_Step]_vars

\* The index of a crawl of three pages, one of whose fetches failed.
C6_Witness ==
    /\ pc = "built"
    /\ Len(results) >= 2
    /\ fetch_failed # {}
    /\ idx.doc_count = Len(results)

(***************************************************************************)
(* C7: a fetch answered with a non-2xx status fails: the page is not added *)
(* to results and its links are not pushed onto the frontier.              *)
(***************************************************************************)
Status(url) == Response(site, url).status

C7_Non2xxSkipped ==
    \A i \in 1..Len(results) : Status(results[i].url) \in 200..299

(***************************************************************************)
(* C8: if the seed URL parses and its fetch fails, crawl returns success   *)
(* with no results, and the index built from them has no term and          *)
(* doc_count = 0; if the seed URL does not parse, crawl returns an error   *)
(* and no fetch task was ever spawned.                                     *)
(***************************************************************************)
C8_SeedFailure ==
    /\ start_url \in fetch_failed =>
          /\ pc # "err"
          /\ results = <<>>
          /\ queue = <<>>
          /\ dispatched = <<[url |-> start_url, depth |-> 0]>>
          /\ pc \in {"built", "saved"} =>
                idx.term_tf = EmptyMap /\ DOMAIN idx.term_tf = {} /\ idx.doc_count = 0
    /\ UrlParse(start_url) = None =>
          /\ pc \in {"init", "err"}
          /\ dispatched = <<>>
          /\ join_set = {}
          /\ visited = {}
    /\ UrlParse(start_url) # None => pc # "err"

\* The index of a crawl whose seed was served but could not be fetched.
C8_Witness ==
    /\ start_url \in fetch_failed
    /\ R(UrlParse(start_url).host, UrlParse(start_url).path) \in DOMAIN site
    /\ pc = "built"

\* The seed did not parse and crawl has returned.
C8_WitnessParse == UrlParse(start_url) = None /\ pc = "err"

(***************************************************************************)
(* C9: search has boolean AND semantics: for a query with at least one     *)
(* token it returns exactly the URLs in the document set of every query    *)
(* token, each once, in ascending lexicographic order; a token the index   *)
(* does not hold makes the result empty; a query without tokens returns    *)
(* the empty list.                                                         *)
(***************************************************************************)
C9_Expected ==
    IF tokenize(q_query) = <<>> THEN {}
    ELSE {u \in UNION {q_index[t] : t \in DOMAIN q_index} :
             \A k \in 1..Len(tokenize(q_query)) :
                /\ tokenize(q_query)[k] \in DOMAIN q_index
                /\ u \in q_index[tokenize(q_query)[k]]}

C9_SearchAnd ==
    q_pc = "done" =>
       /\ {q_hits[i] : i \in 1..Len(q_hits)} = C9_Expected
       /\ \A i \in 1..(Len(q_hits) - 1) : StrLess(q_hits[i], q_hits[i + 1])
       /\ (\E k \in 1..Len(tokenize(q_query)) :
              tokenize(q_query)[k] \notin DOMAIN q_index) => q_hits = <<>>

\* Two different tokens, two URLs in both document sets, a third in one.
C9_Witness ==
    /\ q_pc = "done"
    /\ tokenize(q_query) = <<<<"a">>, <<"b">>>>
    /\ Len(q_hits) = 2
    /\ DOMAIN q_index = QueryTerms
    /\ q_index[<<"a">>] = QueryUrls

\* A token the index does not hold, beside one it holds.
C9_WitnessAbsent ==
    /\ q_pc = "done"
    /\ Len(tokenize(q_query)) = 2
    /\ tokenize(q_query)[1] \in DOMAIN q_index
    /\ q_index[tokenize(q_query)[1]] # {}
    /\ tokenize(q_query)[2] \notin DOMAIN q_index

(***************************************************************************)
(* C10: the two-page scenario.  Seed page A ("hello world", a link to B),  *)
(* page B ("hello again", no links), max_pages = 10, max_depth = 3, both   *)
(* fetches succeed: results holds exactly A and B, the index is            *)
(* term_tf[hello] = {A:1, B:1}, term_tf[world] = {A:1},                    *)
(* term_tf[again] = {B:1}, doc_count = 2.  As written, the claim has       *)
(* search("hello world") return the empty list; as amended, it returns     *)
(* the list of A alone, A being the one page that holds both words.        *)
(***************************************************************************)
Scenario ==
    /\ site = ScenarioSite
    /\ start_url = UrlA
    /\ max_pages = ScenarioMaxPages
    /\ max_depth = ScenarioMaxDepth
    /\ fetch_failed = {}
    /\ pc \in {"built", "saved"}

ScenarioIndex ==
    /\ Len(results) = 2
    /\ Urls(results) = {UrlA, UrlB}
    /\ DOMAIN idx.term_tf = {Hello, World, Again}
    /\ idx.term_tf[Hello] = (UrlA :> 1) @@ (UrlB :> 1)
    /\ idx.term_tf[World] = (UrlA :> 1)
    /\ idx.term_tf[Again] = (UrlB :> 1)
    /\ idx.doc_count = 2

\* The claim as written.
C10_ScenarioAsWritten ==
    Scenario =>
       /\ ScenarioIndex
       /\ search(as_inverted(idx), Hello \o Sp \o World) = <<>>

\* The claim as amended.
C10_Scenario ==
    Scenario =>
       /\ ScenarioIndex
       /\ search(as_inverted(idx), Hello \o Sp \o World) = <<UrlA>>

\* The scenario's crawl has ended and its index is built.
C10_Witness == Scenario /\ pc = "built" /\ Len(results) = 2

(***************************************************************************)
(* C11: search_ranked counts each distinct query token once: the score of  *)
(* a returned document d is the sum, over the distinct query tokens t the  *)
(* index holds, of tf(t, d) * idf(t), so a token repeated in the query     *)
(* changes no score; absent tokens add nothing; the documents returned are *)
(* exactly those that hold at least one query token.                       *)
(***************************************************************************)
DistinctTokens(query) == {tokenize(query)[k] : k \in 1..Len(tokenize(query))}

RECURSIVE SumOver(_, _, _)
SumOver(index, tokens, d) ==
    IF tokens = {} THEN 0
    ELSE LET t == CHOOSE x \in tokens : TRUE
         IN  (IF t \in DOMAIN index.term_tf /\ d \in DOMAIN index.term_tf[t]
              THEN index.term_tf[t][d]
                   * Idf(index.doc_count, Cardinality(DOMAIN index.term_tf[t]))
              ELSE 0)
             + SumOver(index, tokens \ {t}, d)

C11_DistinctTokensOnce ==
    q_pc = "ranked" =>
       /\ {q_hits[i][1] : i \in 1..Len(q_hits)} =
             {d \in Docs(q_index.term_tf) :
                 \E t \in DistinctTokens(q_query) :
                    t \in DOMAIN q_index.term_tf /\ d \in DOMAIN q_index.term_tf[t]}
       /\ \A i \in 1..Len(q_hits) :
             q_hits[i][2] = SumOver(q_index, DistinctTokens(q_query), q_hits[i][1])

(***************************************************************************)
(* C12: for a result list with pairwise distinct URLs, build gives         *)
(* term_tf[w][url] = k exactly when the token w occurs k >= 1 times in the *)
(* tokenized body of the result with that URL, no entry when k = 0, and    *)
(* doc_count is the number of results, those with an empty body included.  *)
(***************************************************************************)
Occurrences(w, tokens) == Cardinality({i \in 1..Len(tokens) : tokens[i] = w})

TokensOf(result) == tokenize(result.body_text)

HasEntry(index, w, url) ==
    w \in DOMAIN index.term_tf /\ url \in DOMAIN index.term_tf[w]

C12_BuildCounts ==
    pc \in {"built", "saved"} =>
       /\ idx.doc_count = Len(results)
       /\ \A w \in DOMAIN idx.term_tf : \A u \in DOMAIN idx.term_tf[w] :
             u \in Urls(results)
       /\ \A i \in 1..Len(results) :
          \A w \in DOMAIN idx.term_tf
                   \cup UNION {{TokensOf(results[j])[n] :
                                   n \in 1..Len(TokensOf(results[j]))} :
                                j \in 1..Len(results)} :
             IF Occurrences(w, TokensOf(results[i])) = 0
             THEN ~HasEntry(idx, w, results[i].url)
             ELSE /\ HasEntry(idx, w, results[i].url)
                  /\ idx.term_tf[w][results[i].url]
                        = Occurrences(w, TokensOf(results[i]))

\* Two documents: one holds the token "a" twice, the other has no token.
C12_Witness ==
    /\ pc = "built"
    /\ Len(results) = 2
    /\ Distinct(results)
    /\ \E i, j \in 1..2 :
          /\ TokensOf(results[i]) = <<>>
          /\ TokensOf(results[j]) = << <<"a">>, <<"a">> >>
          /\ idx.term_tf[<<"a">>][results[j].url] = 2
    /\ idx.doc_count = 2

(***************************************************************************)
(* C13: run_serve reads the index file as the counted schema first and     *)
(* falls back to the legacy schema (term -> list of URLs) only when that   *)
(* parse fails.  After a fallback every term's document set is the set of  *)
(* the URLs of its list, every count is 1, and doc_count is the number of  *)
(* distinct URLs over all the lists.                                       *)
(***************************************************************************)
ListUrls(list) == {list[i] : i \in 1..Len(list)}

C13_LoadFallback ==
    q_pc \in {"loaded", "load_err"} =>
       /\ file.schema = "counted" =>
             /\ q_pc = "loaded"
             /\ q_index = [term_tf |-> file.term_tf, doc_count |-> file.doc_count]
       /\ file.schema = "legacy" =>
             /\ q_pc = "loaded"
             /\ DOMAIN q_index.term_tf = DOMAIN file.lists
             /\ \A t \in DOMAIN file.lists :
                   /\ DOMAIN q_index.term_tf[t] = ListUrls(file.lists[t])
                   /\ \A u \in ListUrls(file.lists[t]) : q_index.term_tf[t][u] = 1
             /\ q_index.doc_count =
                   Cardinality(UNION {ListUrls(file.lists[t]) : t \in DOMAIN file.lists})

\* A legacy file whose two lists share a URL, one of them holding it twice.
C13_Witness ==
    /\ q_pc = "loaded"
    /\ file = LegacyJson((<<"a">> :> <<UrlA, UrlA>>) @@ (<<"b">> :> <<UrlA, UrlB>>))
    /\ q_index.doc_count = 2
    /\ q_index.term_tf[<<"a">>] = (UrlA :> 1)

\* A counted file keeps its counts and its doc_count.
C13_WitnessCounted ==
    /\ q_pc = "loaded"
    /\ file.schema = "counted"
    /\ \E t \in DOMAIN q_index.term_tf : \E u \in DOMAIN q_index.term_tf[t] :
          q_index.term_tf[t][u] = 2
    /\ q_index.doc_count > Cardinality(Docs(q_index.term_tf))

(***************************************************************************)
(* C14: max_pages bounds the dispatches.  As written: over a whole run the *)
(* number of fetch tasks dispatched never exceeds max_pages, whatever      *)
(* fetches fail.  As the code has it: the dispatches whose fetch has not   *)
(* failed (the results and the tasks in flight) never exceed max_pages.    *)
(***************************************************************************)
C14_DispatchesAsWritten == Len(dispatched) <= max_pages

\* The tasks joined with a failure: each URL is dispatched once.
FailedJoins == Cardinality(fetch_failed)

C14_LiveDispatchCap ==
    /\ Len(dispatched) - FailedJoins <= max_pages
    /\ Len(dispatched) - FailedJoins = Len(results) + Cardinality(join_set)

\* A run that dispatched more tasks than max_pages, and filled the cap.
C14_Witness ==
    /\ pc = "ok"
    /\ max_pages > 0
    /\ Len(dispatched) > max_pages
    /\ Len(results) = max_pages

(***************************************************************************)
(* C15: at every moment at most C fetch tasks are running.  A task is      *)
(* spawned only after the orchestrator acquired one of the C permits, it   *)
(* holds the permit until it completes, and the permits held never exceed  *)
(* C, for every C >= 1 and every max_pages, max_pages > C included.        *)
(***************************************************************************)
Running == {t \in join_set : ~t.done}

C15_State ==
    /\ Cardinality(Running) <= max_concurrent
    /\ pc \notin {"init", "err"} =>
          /\ permits >= 0
          /\ max_concurrent - permits = Cardinality(Running)

C15_Step ==
    /\ Len(dispatched') > Len(dispatched) =>
          /\ permits > 0
          /\ permits' = permits - 1
          /\ Cardinality(Running') = Cardinality(Running) + 1
    /\ permits' > permits /\ pc # "init" =>
          /\ permits' = permits + 1
          /\ Cardinality(Running') = Cardinality(Running) - 1
    /\ Cardinality(Running') < Cardinality(Running) => permits' = permits + 1

C15_AtMostCRunning == []C15_State /\ [][C15_Step]_vars

\* C tasks are running and the orchestrator waits for a permit for the next
\* entry, which the page cap would let it dispatch.
C15_Witness ==
    /\ pc = "acquire"
    /\ permits = 0
    /\ Cardinality(Running) = max_concurrent
    /\ max_pages > max_concurrent
    /\ Len(results) + Cardinality(join_set) < max_pages

(***************************************************************************)
(* C16: a failed fetch never aborts the crawl.  The completion of a task   *)
(* that failed leaves results and the frontier as they are, the crawl      *)
(* still returns Ok, and the other entries of the frontier are dispatched  *)
(* as long as the page cap allows: the capacity the failure frees can be   *)
(* used by a later entry.                                                  *)
(***************************************************************************)
C16_Step ==
    /\ fetch_failed' # fetch_failed =>
          /\ results' = results
          /\ queue' = queue
          /\ pc' = "loop"
    /\ (\E t \in join_set' : t.done /\ ~t.res.ok /\ t \notin join_set) =>
          /\ results' = results
          /\ queue' = queue
          /\ pc' = pc

C16_State ==
    /\ pc = "err" => UrlParse(start_url) = None /\ dispatched = <<>>
    /\ (pc \in ReturnedOk /\ fetch_failed # {}) =>
          Len(results) = max_pages \/ queue = <<>>

C16_FailureSwallowed ==
    /\ [][C16_Step]_vars
    /\ []C16_State
    /\ (UrlParse(start_url) # None) => <>(pc \in ReturnedOk)

\* A crawl that returned Ok after a failed fetch: an entry dispatched after
\* the max_pages-th dispatch is in results.
C16_Witness ==
    /\ pc = "ok"
    /\ \E i, j \in 1..Len(dispatched) :
          /\ i < j
          /\ j > max_pages
          /\ dispatched[i].url \in fetch_failed
          /\ dispatched[j].url \in Urls(results)

(***************************************************************************)
(* C17: the crawl does not stop early.  Whenever crawl_async returns Ok,   *)
(* no task is in flight and either |results| = max_pages or the frontier   *)
(* is empty: every entry pushed has been popped, and dispatched or dropped.*)
(***************************************************************************)
C17_NoEarlyStop ==
    pc \in ReturnedOk =>
       /\ join_set = {}
       /\ cur = NoEntry
       /\ Len(results) = max_pages \/ queue = <<>>

\* A crawl stopped by the page cap, with entries left on the frontier.
C17_Witness ==
    /\ pc = "ok"
    /\ max_pages > 1
    /\ Len(results) = max_pages
    /\ queue # <<>>

\* A crawl that ran out of entries below the page cap.
C17_WitnessDrained ==
    /\ pc = "ok"
    /\ queue = <<>>
    /\ Len(results) >= 2
    /\ Len(results) < max_pages

(***************************************************************************)
(* C18: results are in completion order, not frontier order.  A result is  *)
(* appended when the orchestrator consumes the completion of its task,     *)
(* and two pages dispatched concurrently (C >= 2) from the same depth can  *)
(* come in either order.                                                   *)
(***************************************************************************)
C18_Step ==
    results' # results =>
       /\ pc = "join"
       /\ \E t \in join_set :
             /\ t.done
             /\ t.res.ok
             /\ join_set' = join_set \ {t}
             /\ results' = Append(results, t.res.val)

C18_CompletionOrder == [][C18_Step]_vars

Position(seq, url) == CHOOSE i \in 1..Len(seq) : seq[i].url = url

\* The result of a task is in results while a task dispatched before it, at
\* the same depth, is still running.
C18_Witness ==
    /\ max_concurrent >= 2
    /\ \E t \in join_set :
          /\ ~t.done
          /\ \E j \in (t.id + 1)..Len(dispatched) :
                /\ dispatched[j].depth = t.depth
                /\ dispatched[j].url \in Urls(results)

\* Two pages of one depth, both in results: in the order of their dispatch,
\* and in the other order.
C18_WitnessFrontierOrder ==
    /\ pc = "ok"
    /\ max_concurrent >= 2
    /\ \E i, j \in 1..Len(dispatched) :
          /\ i < j
          /\ dispatched[i].depth = dispatched[j].depth
          /\ {dispatched[i].url, dispatched[j].url} \subseteq Urls(results)
          /\ Position(results, dispatched[i].url) < Position(results, dispatched[j].url)

C18_WitnessReversed ==
    /\ pc = "ok"
    /\ max_concurrent >= 2
    /\ \E i, j \in 1..Len(dispatched) :
          /\ i < j
          /\ dispatched[i].depth = dispatched[j].depth
          /\ {dispatched[i].url, dispatched[j].url} \subseteq Urls(results)
          /\ Position(results, dispatched[j].url) < Position(results, dispatched[i].url)

(***************************************************************************)
(* C19: the set of crawled pages does not depend on fetch latency.  When   *)
(* every fetch succeeds and max_pages is larger than the number of         *)
(* reachable pages, the set of the result URLs is, for every completion    *)
(* order, the set of the pages whose shortest link distance from the seed  *)
(* is at most max_depth.                                                   *)
(***************************************************************************)
Served(url) == SendOk(site, url, "up")

PageLinks(url) ==
    IF Served(url)
    THEN {ExtractLinks(UrlParse(url), Response(site, url).hrefs)[i] :
             i \in 1..Len(ExtractLinks(UrlParse(url), Response(site, url).hrefs))}
    ELSE {}

\* The URLs at most d links away from the seed.
RECURSIVE Within(_)
Within(d) ==
    IF d = 0 THEN {start_url}
    ELSE Within(d - 1) \cup UNION {PageLinks(u) : u \in Within(d - 1)}

Reachable == Within(Cardinality(DOMAIN site) + 1)

C19_SetIndependentOfOrder ==
    (/\ pc \in ReturnedOk
     /\ fetch_failed = {}
     /\ max_pages > Cardinality(Reachable))
    => Urls(results) = {u \in Within(max_depth) : Served(u)}

(***************************************************************************)
(* C20: the seed page is fetched at most once per crawl, also when a page  *)
(* links back to it.  For every seed string that parses, normalized or not *)
(* (no trailing slash, a fragment, an upper-case host), a link that        *)
(* normalizes to the seed's URL is never dispatched, and the seed page     *)
(* never yields two results.                                               *)
(***************************************************************************)
\* The URL a string stands for, without its fragment.
NormalForm(s) == [UrlParse(s) EXCEPT !.frag = FALSE]

C20_SeedFetchedOnce ==
    /\ \A j \in 2..Len(dispatched) :
          NormalForm(dispatched[j].url) # NormalForm(start_url)
    /\ Cardinality({i \in 1..Len(results) :
                       NormalForm(results[i].url) = NormalForm(start_url)}) <= 1

====
